---- MODULE Spec2Model ----
(***************************************************************************)
(* Model of amicitizen_serv (main.go): a blacklist of passport numbers     *)
(* kept in a bolt database, refreshed from a remote bzip2 feed.            *)
(*                                                                         *)
(* Goroutines: syncStatus, syncHelper and the updater goroutines spawned   *)
(* by syncStatus (the status register on the channels lastStatus and       *)
(* syncedStatus), updateManager/performUpdate/downloadUpdate (the          *)
(* orchestrator and the pipeline), updateScheduller, the /update handlers  *)
(* (kickstartUpdate), the goroutines that send on updateRequired and the   *)
(* handler of / (handlePassportValid).                                     *)
(* All three channels are unbuffered: a send and a receive happen in one   *)
(* step, between a goroutine blocked in the send and one in the receive.   *)
(***************************************************************************)
EXTENDS Integers, Sequences, FiniteSets, TLC

\* ---------------------------------------------------------------- bounds
NumHandlers == 1      \* concurrent /update requests
MaxUpdaters == 2      \* live updater goroutines of syncStatus
MaxRetry    == 1      \* retry goroutines blocked on updateRequired
MaxKick     == 1      \* /update goroutines blocked on updateRequired
MaxTime     == 3      \* the clock runs 0..MaxTime
BatchSize   == 2      \* main.go:276 commits every 1000 tokens; scaled down
MaxLen      == 4      \* bytes of a decompressed stream drawn from Streams
MaxBody     == 10     \* bytes of the body of a request for /

\* main.go:85: a body shorter than this is answered 422.
MinLen == 9

\* main.go:347: the layout string time.RFC1123, parsed as a time, is
\* Mon, 02 Jan 2006 15:04:05 MST; the clock of the model starts after it.
PlaceholderTime == 1

\* ---------------------------------------------------------------- values
ready      == "ready"
processing == "processing"
failed     == "failed"
Status     == {ready, processing, failed}

Handlers == 1..NumHandlers

Digits  == {"1", "2"}
Newline == "\n"
Other   == "x"         \* a byte that is neither a digit nor a newline
Bytes   == Digits \cup {Newline, Other}

\* The decompressed feeds the remote serves, as byte sequences.
Feeds ==
  << <<"1", Newline, "2", Newline, "1", "2", Newline>>,
     <<"2", Newline, "2", "1", Newline, "1", Newline>> >>

\* Every decompressed stream of at most MaxLen bytes.
Streams == UNION {[1..n -> Bytes] : n \in 0..MaxLen}

\* The value under "updated" in bucket ustatus.
Absent   == [kind |-> "absent", t |-> 0]    \* no bucket or no key
Garbage  == [kind |-> "garbage", t |-> 0]   \* time.Parse(time.RFC1123, .) fails
Stamp(t) == [kind |-> "time", t |-> t]      \* a time in the RFC1123 format

VARIABLES
  currentStatus,  \* syncStatus: var currentStatus
  helper,         \* syncHelper: [pc, s]
  upd,            \* updater goroutines of syncStatus: [wait, eval, send]
  hs,             \* kickstartUpdate, one per handler: [pc, status, inRun]
  sched,          \* updateScheduller: pc
  pending,        \* goroutines blocked in updateRequired <- true, by origin
  orch,           \* updateManager/performUpdate: [pc, t, outdated]
  dl,             \* downloadUpdate locals: [body, pos, line, lines, savedLines, rdrErr]
  db,             \* bolt database: [passports, updated, faulty]
  remote,         \* the remote feed: [mod, feed], feed the decompressed bytes
  clock,          \* time.Now()
  gh,             \* history for the properties: [run, running]
  qs              \* handlePassportValid: [pc, method, body, res]

vars == <<currentStatus, helper, upd, hs, sched, pending, orch, dl, db,
          remote, clock, gh, qs>>

\* ------------------------------------------------------------ strings
IsSpace(c) == c \in {" ", "\t", Newline}

RECURSIVE TrimLeft(_)
TrimLeft(s) ==
  IF s # <<>> /\ IsSpace(Head(s)) THEN TrimLeft(Tail(s)) ELSE s

RECURSIVE TrimRight(_)
TrimRight(s) ==
  IF s # <<>> /\ IsSpace(s[Len(s)])
  THEN TrimRight(SubSeq(s, 1, Len(s) - 1)) ELSE s

TrimSpace(s) == TrimRight(TrimLeft(s))

\* ------------------------------------------------------------ database
\* isBlacklisted: the bucket lookup of the trimmed number.
isBlacklisted(d, num) == TrimSpace(num) \in d.passports

\* A transaction body that empties the bucket before it puts the keys.
PutLines_last(bucket, lines) ==
  {TrimSpace(lines[i]) : i \in 1..Len(lines)}

\* saveToDB's transaction body: put "1" under every key not yet present.
\* The bucket is the set of its keys: "1" is the only value ever put.
RECURSIVE PutLines(_, _)
PutLines(bucket, lines) ==
  IF lines = <<>> THEN bucket
  ELSE PutLines(IF TrimSpace(Head(lines)) \in bucket THEN bucket
                ELSE bucket \cup {TrimSpace(Head(lines))},
                Tail(lines))

\* A saveToDB that creates the bucket anew: what was there is lost.
saveToDB_fresh(d, lines, ok) ==
  IF ok THEN [d EXCEPT !.passports = PutLines({}, lines)] ELSE d

\* saveToDB: db.Update commits the whole transaction or, on error, nothing.
saveToDB(d, lines, ok) ==
  IF ok THEN [d EXCEPT !.passports = PutLines(d.passports, lines)] ELSE d

\* setLastUpdated: writes time.Now() under "updated"; nothing on error.
setLastUpdated(d, now, ok) ==
  IF ok THEN [d EXCEPT !.updated = Stamp(now)] ELSE d

\* remoteUpdated: result [outdated, err].  viewOk = FALSE is db.View
\* returning an error: lastUpdStr keeps the placeholder and the error is
\* overwritten by the one of time.Parse.
remoteUpdated(remoteTime, d, viewOk) ==
  LET lastUpdStr == IF viewOk /\ d.updated # Absent THEN d.updated
                    ELSE Stamp(PlaceholderTime)
  IN  IF lastUpdStr = Garbage THEN [outdated |-> TRUE, err |-> TRUE]
      ELSE IF ~(remoteTime > lastUpdStr.t)
           THEN [outdated |-> FALSE, err |-> FALSE]
           ELSE [outdated |-> TRUE, err |-> FALSE]

\* ------------------------------------------------------------ status
\* The value of the last completed set: the last value syncStatus received
\* on lastStatus and stored (currentStatus starts as ready).
lastSet == currentStatus

Running == lastSet = processing

\* History of the refresh under way: whether db.View, a saveToDB or
\* setLastUpdated returned an error in it and the entries its batches
\* committed.  gh.running counts the calls of downloadUpdate that have not
\* returned.
NoRun == [outcome |-> "none", commitFailed |-> FALSE, viewFailed |-> FALSE,
          writeFailed |-> FALSE, committed |-> {}]

NoDl == [body |-> <<>>, pos |-> 0, line |-> <<>>, lines |-> <<>>,
         savedLines |-> 0, rdrErr |-> "nil"]

IdleHandler == [pc |-> "idle", status |-> ready, inRun |-> FALSE]

NoReply == [code |-> 0, text |-> ""]

NoQuery == [pc |-> "idle", method |-> "", body |-> <<>>, res |-> NoReply]

\* The goroutines and channels after main has started them, the remote
\* serving feed f, modified at m.
Started(m, f) ==
  /\ currentStatus = ready
  /\ helper = [pc |-> "init", s |-> ready]
  /\ upd = [wait |-> 0, eval |-> 0, send |-> [s \in Status |-> 0]]
  /\ hs = [h \in Handlers |-> IdleHandler]
  /\ sched = "send"
  /\ pending = [sched |-> 1, retry |-> 0, kick |-> 0]
  /\ orch = [pc |-> "wait"]
  /\ dl = NoDl
  /\ clock = PlaceholderTime + 1
  /\ remote = [mod |-> m, feed |-> f]
  /\ gh = [run |-> NoRun, running |-> 0]
  /\ qs = NoQuery

\* The state after main has started the goroutines, with a database file
\* without passports holding u under "updated".  faulty: the file is on a
\* disk where a transaction can return an error.
Start(u, m, f, faulty) ==
  /\ Started(m, f)
  /\ db = [passports |-> {}, updated |-> u, faulty |-> faulty]

\* A database without errors.
Init ==
  \E u \in {Absent, Garbage}, m \in {0, PlaceholderTime + 1} :
     Start(u, m, Feeds[1], FALSE)

\* A database whose transactions can return errors.
InitFaulty ==
  \E u \in {Absent, Garbage}, m \in {0, PlaceholderTime + 1} :
     Start(u, m, Feeds[1], TRUE)

\* An empty database without errors and a remote serving any stream.
InitIngest == \E b \in Streams : Start(Absent, PlaceholderTime + 1, b, FALSE)

\* An empty database without errors and a remote whose Last-Modified is not
\* after the placeholder of remoteUpdated: performUpdate never finds it
\* outdated, and what it sets is failed, after a failure of the probe.
InitReader == Start(Absent, 0, <<>>, FALSE)

\* An empty database without errors and a remote serving an empty stream.
InitSettle == Start(Absent, PlaceholderTime + 1, <<>>, FALSE)

\* Keys of MinLen - 1 and of MinLen digits.
StoredKeys == {[i \in 1..n |-> "1"] : n \in {MinLen - 1, MinLen}}

\* A database file left by earlier refreshes, holding any of StoredKeys.
InitQuery ==
  \E P \in SUBSET StoredKeys :
     /\ Started(PlaceholderTime + 1, Feeds[1])
     /\ db = [passports |-> P, updated |-> Stamp(PlaceholderTime + 1),
              faulty |-> TRUE]

\* The results a transaction of the database can have: TRUE is success.
Commits == {TRUE} \cup {x \in {FALSE} : db.faulty}

\* ------------------------------------------------- the status register
\* The updater goroutines end after their receive: no send of line 168.
Senders_noUpdater ==
  (IF helper.pc \in {"init", "send"}
   THEN {[k |-> "helper", h |-> 0, v |-> helper.s]} ELSE {})
  \cup {[k |-> "handler", h |-> x, v |-> hs[x].status] :
          x \in {y \in Handlers : hs[y].pc = "send"}}

\* Goroutines blocked in a send on syncedStatus: syncHelper (lines 174,
\* 177), a handler returning the value (135), an updater (168).
Senders ==
  (IF helper.pc \in {"init", "send"}
   THEN {[k |-> "helper", h |-> 0, v |-> helper.s]} ELSE {})
  \cup {[k |-> "handler", h |-> x, v |-> hs[x].status] :
          x \in {y \in Handlers : hs[y].pc = "send"}}
  \cup {[k |-> "updater", h |-> 0, v |-> x] :
          x \in {y \in Status : upd.send[y] > 0}}

Sent(snd) == snd.v

\* The sender's side of a handoff: syncHelper loops to its receive, a
\* handler goes on to its switch, an updater goroutine ends.
helperSent(snd) ==
  IF snd.k = "helper" THEN [helper EXCEPT !.pc = "recv"] ELSE helper

hsSent(snd) ==
  IF snd.k = "handler" THEN [hs EXCEPT ![snd.h].pc = "switch"] ELSE hs

updSent(snd) ==
  IF snd.k = "updater" THEN [upd EXCEPT !.send[snd.v] = @ - 1] ELSE upd

Updaters == upd.wait + upd.eval + upd.send[ready] + upd.send[processing]
            + upd.send[failed]

\* syncHelper, line 176: s := <-syncedStatus
syncHelper ==
  /\ helper.pc = "recv"
  /\ \E snd \in Senders :
       /\ helper' = [pc |-> "send", s |-> Sent(snd)]
       /\ hs' = hsSent(snd)
       /\ upd' = updSent(snd)
  /\ UNCHANGED <<qs, currentStatus, sched, pending, orch, dl, db, remote,
                 clock, gh>>

\* syncStatus's goroutine, line 167: <-syncedStatus
updaterTake ==
  /\ upd.wait > 0
  /\ \E snd \in Senders :
       /\ upd' = [updSent(snd) EXCEPT !.wait = @ - 1, !.eval = @ + 1]
       /\ helper' = helperSent(snd)
       /\ hs' = hsSent(snd)
  /\ UNCHANGED <<qs, currentStatus, sched, pending, orch, dl, db, remote,
                 clock, gh>>

\* An updater goroutine that sends the value it was started with, the one
\* of its own set or of an earlier one.
updaterEval_own ==
  /\ upd.eval > 0
  /\ \E s \in Status :
       upd' = [upd EXCEPT !.eval = @ - 1, !.send[s] = @ + 1]
  /\ UNCHANGED <<qs, currentStatus, helper, hs, sched, pending, orch, dl, db,
                 remote, clock, gh>>

\* syncStatus's goroutine, line 168: the operand currentStatus is read when
\* the send statement is reached; the goroutine then blocks in the send.
updaterEval ==
  /\ upd.eval > 0
  /\ upd' = [upd EXCEPT !.eval = @ - 1, !.send[currentStatus] = @ + 1]
  /\ UNCHANGED <<qs, currentStatus, helper, hs, sched, pending, orch, dl, db,
                 remote, clock, gh>>

\* ------------------------------------------------------------ /update
\* A request for /update arrives and kickstartUpdate starts.
Request(h) ==
  /\ hs[h].pc = "idle"
  /\ pending.kick < MaxKick
  /\ hs' = [hs EXCEPT ![h] = [IdleHandler EXCEPT !.pc = "recv",
                                                  !.inRun = Running]]
  /\ UNCHANGED <<qs, currentStatus, helper, upd, sched, pending, orch, dl, db,
                 remote, clock, gh>>

\* kickstartUpdate, line 133: status := <-syncedStatus
kickstartBorrow(h) ==
  /\ hs[h].pc = "recv"
  /\ \E snd \in Senders :
       /\ hs' = [hsSent(snd) EXCEPT ![h].pc = "send", ![h].status = Sent(snd)]
       /\ helper' = helperSent(snd)
       /\ upd' = updSent(snd)
  /\ UNCHANGED <<qs, currentStatus, sched, pending, orch, dl, db, remote,
                 clock, gh>>

\* kickstartUpdate, lines 136-146: the text written for the status read.
Response(status) ==
  IF status \in {ready, failed} THEN "Checking remote for updated dataset"
  ELSE "Update is already in progress"

\* kickstartUpdate, lines 136-146: the switch on the status read; for ready
\* and failed a goroutine is started that sends on updateRequired.  The
\* handler writes Response(status) and returns.
kickstartSwitch(h) ==
  /\ hs[h].pc = "switch"
  /\ pending' = IF hs[h].status \in {ready, failed}
                THEN [pending EXCEPT !.kick = @ + 1] ELSE pending
  /\ hs' = [hs EXCEPT ![h] = IdleHandler]
  /\ UNCHANGED <<qs, currentStatus, helper, upd, sched, orch, dl, db, remote,
                 clock, gh>>

\* ------------------------------------------------------------ POST /
\* The bodies of the requests: digits and blanks, at most MaxBody bytes.
Bodies == UNION {[1..n -> {"1", " "}] : n \in 0..MaxBody}

\* handlePassportValid, lines 73-105: the status code and the text written.
\* viewOk = FALSE is db.View returning an error in isBlacklisted.
handlePassportValid(d, method, body, viewOk) ==
  IF method # "POST" THEN [code |-> 400, text |-> "Only POST accepted"]
  ELSE IF Len(body) < MinLen
       THEN [code |-> 422, text |-> "Passport number too short"]
       ELSE IF ~viewOk THEN [code |-> 500, text |-> "db.View error"]
            ELSE IF isBlacklisted(d, body)
                 THEN [code |-> 200, text |-> "invalid"]
                 ELSE [code |-> 200, text |-> "valid"]

\* A request for / arrives.
Query(method, body) ==
  /\ qs.pc = "idle"
  /\ qs' = [pc |-> "handle", method |-> method, body |-> body,
            res |-> NoReply]
  /\ UNCHANGED <<currentStatus, helper, upd, hs, sched, pending, orch, dl,
                 db, remote, clock, gh>>

\* handlePassportValid runs and writes its response.
QueryReply ==
  /\ qs.pc = "handle"
  /\ \E viewOk \in Commits :
       qs' = [qs EXCEPT !.pc = "written",
                        !.res = handlePassportValid(db, qs.method, qs.body,
                                                    viewOk)]
  /\ UNCHANGED <<currentStatus, helper, upd, hs, sched, pending, orch, dl,
                 db, remote, clock, gh>>

\* The client has the response and handlePassportValid has returned.
QueryReturn ==
  /\ qs.pc = "written"
  /\ qs' = NoQuery
  /\ UNCHANGED <<currentStatus, helper, upd, hs, sched, pending, orch, dl,
                 db, remote, clock, gh>>

\* ------------------------------------------------------ the scheduler
\* The send of line 192 started as a goroutine: the scheduler goes on.
schedullerBlocked_async == FALSE

\* updateScheduller is blocked in its send (line 192) until updateManager
\* receives.
schedullerBlocked == sched = "send"

\* updateScheduller, lines 194 and 191-192: time.Sleep is over and the next
\* turn of the loop reaches its send.
updateScheduller ==
  /\ ~schedullerBlocked
  /\ sched' = "send"
  /\ pending' = [pending EXCEPT !.sched = @ + 1]
  /\ UNCHANGED <<qs, currentStatus, helper, upd, hs, orch, dl, db, remote, clock,
                 gh>>

\* ---------------------------------------------------- the orchestrator
\* performUpdate started as a goroutine: the loop is back at its receive
\* at once.
managerReady_async == TRUE

\* updateManager is at its receive (line 183) only between two calls of
\* performUpdate.
managerReady == orch.pc = "wait"

\* updateManager, line 183: <-updateRequired, from one of the blocked senders.
updateManager(src) ==
  /\ managerReady
  /\ pending[src] > 0
  /\ pending' = [pending EXCEPT ![src] = @ - 1]
  /\ sched' = IF src = "sched" THEN "sleep" ELSE sched
  /\ orch' = [orch EXCEPT !.pc = "head"]
  /\ UNCHANGED <<qs, currentStatus, helper, upd, hs, dl, db, remote, clock,
                 gh>>

\* performUpdate, lines 199-226 and 238: the HEAD request, the parse of
\* Last-Modified, remoteUpdated and the branch on its result.  headOk =
\* FALSE is an error of NewRequest, of client.Do or of time.Parse.
performUpdateProbe ==
  /\ orch.pc = "head"
  /\ \E headOk \in BOOLEAN, viewOk \in Commits :
       LET t == remote.mod
           r == remoteUpdated(t, db, viewOk)
       IN  IF ~headOk
           THEN /\ orch' = [orch EXCEPT !.pc = "sendFailed"]
                /\ gh' = [gh EXCEPT !.run.outcome = "probeError"]
           ELSE /\ orch' = [orch EXCEPT
                      !.pc = IF r.err THEN "sendFailed"
                             ELSE IF r.outdated \/ r.err THEN "sendProcessing"
                             ELSE "wait"]
                /\ gh' = IF r.err \/ r.outdated
                         THEN [gh EXCEPT
                                 !.run.viewFailed = ~viewOk,
                                 !.run.outcome = IF r.err THEN "metaError"
                                                 ELSE "outdated"]
                         ELSE gh
  /\ UNCHANGED <<qs, currentStatus, helper, upd, hs, sched, pending, dl, db,
                 remote, clock>>

\* A performUpdate that sends ready where the probe has failed.
Sending_probeReady ==
  CASE orch.pc = "sendProcessing" -> processing
    [] orch.pc = "sendRetry"      -> failed
    [] OTHER                      -> ready

\* The status performUpdate is sending on lastStatus, by its position.
Sending ==
  CASE orch.pc = "sendProcessing" -> processing
    [] orch.pc = "sendReady"      -> ready
    [] OTHER                      -> failed

\* A performUpdate that returns after set(failed) without line 232.
AfterSet_noRetry ==
  CASE orch.pc = "sendProcessing" -> "get"
    [] OTHER                      -> "wait"

\* A performUpdate that starts the retry goroutine after every set(failed).
AfterSet_retryAll ==
  CASE orch.pc = "sendProcessing" -> "get"
    [] orch.pc = "sendRetry"      -> "spawnRetry"
    [] orch.pc = "sendFailed"     -> "spawnRetry"
    [] OTHER                      -> "wait"

\* Where performUpdate goes on after its send on lastStatus was received.
AfterSet ==
  CASE orch.pc = "sendProcessing" -> "get"
    [] orch.pc = "sendRetry"      -> "spawnRetry"
    [] OTHER                      -> "wait"

\* A syncStatus that stores the status and starts no updater goroutine.
syncStatus_noUpdater ==
  /\ orch.pc \in {"sendProcessing", "sendReady", "sendFailed", "sendRetry"}
  /\ currentStatus' = Sending
  /\ orch' = [orch EXCEPT !.pc = AfterSet]
  /\ gh' = IF AfterSet = "get" THEN [gh EXCEPT !.running = @ + 1]
           ELSE IF AfterSet = "wait" THEN [gh EXCEPT !.run = NoRun]
           ELSE gh
  /\ UNCHANGED <<qs, helper, upd, hs, sched, pending, dl, db, remote, clock>>

\* lastStatus <- x in performUpdate (lines 203, 209, 217, 223, 227, 231,
\* 237) received by syncStatus, lines 152-169: l := <-lastStatus,
\* currentStatus = l and the start of the updater goroutine.
syncStatus ==
  /\ orch.pc \in {"sendProcessing", "sendReady", "sendFailed", "sendRetry"}
  /\ Updaters < MaxUpdaters
  /\ currentStatus' = Sending
  /\ upd' = [upd EXCEPT !.wait = @ + 1]
  /\ orch' = [orch EXCEPT !.pc = AfterSet]
  /\ hs' = [h \in Handlers |->
              IF hs[h].pc \in {"recv", "send", "switch"}
              THEN [hs[h] EXCEPT !.inRun = FALSE] ELSE hs[h]]
  /\ gh' = IF AfterSet = "get" THEN [gh EXCEPT !.running = @ + 1]
           ELSE IF AfterSet = "wait" THEN [gh EXCEPT !.run = NoRun]
           ELSE gh
  /\ UNCHANGED <<qs, helper, sched, pending, dl, db, remote, clock>>

\* performUpdate, line 232: go func(...) { updateRequired <- true }(...)
performUpdateRetry ==
  /\ orch.pc = "spawnRetry"
  /\ pending' = [pending EXCEPT !.retry = @ + 1]
  /\ orch' = [orch EXCEPT !.pc = "wait"]
  /\ gh' = [gh EXCEPT !.run = NoRun]
  /\ UNCHANGED <<qs, currentStatus, helper, upd, hs, sched, dl, db, remote,
                 clock>>

\* -------------------------------------------------------- the pipeline
\* A failure of the pipeline makes performUpdate spawn a retry goroutine;
\* faults are injected only while fewer than MaxRetry of them are blocked.
CanFail == pending.retry < MaxRetry

\* downloadUpdate returns to performUpdate, lines 229-237.
Returned(g, success) ==
  [g EXCEPT !.running = @ - 1,
            !.run.outcome = IF success THEN "success" ELSE "failure"]

\* downloadUpdate, lines 242-257: http.Get and the locals.
downloadUpdateGet ==
  /\ orch.pc = "get"
  /\ \/ /\ dl' = [NoDl EXCEPT !.body = remote.feed]
        /\ orch' = [orch EXCEPT !.pc = "read"]
        /\ gh' = gh
     \/ /\ CanFail
        /\ dl' = NoDl
        /\ orch' = [orch EXCEPT !.pc = "sendRetry"]
        /\ gh' = Returned(gh, FALSE)
  /\ UNCHANGED <<qs, currentStatus, helper, upd, hs, sched, pending, db,
                 remote, clock>>

\* A switch in which every byte that is not a digit ends the token.
Scan_split(d, b) ==
  IF b \in Digits THEN [d EXCEPT !.line = Append(@, b)]
  ELSE IF d.line # <<>>
       THEN [d EXCEPT !.lines = Append(@, d.line), !.line = <<>>,
                      !.savedLines = @ + 1]
       ELSE d

\* downloadUpdate, lines 265-275: the switch on the byte read.
Scan(d, b) ==
  IF b \in Digits THEN [d EXCEPT !.line = Append(@, b)]
  ELSE IF b = Newline
       THEN IF d.line # <<>>
            THEN [d EXCEPT !.lines = Append(@, d.line), !.line = <<>>,
                           !.savedLines = @ + 1]
            ELSE d
       ELSE d

\* downloadUpdate, lines 259-284: one turn of the read loop.  The read
\* gives the next byte, io.EOF at the end of the body, or another error at
\* any place.  A full batch is saved and the error of saveToDB dropped.
downloadUpdateRead ==
  /\ orch.pc = "read"
  /\ \/ /\ dl.pos < Len(dl.body)
        /\ LET d == Scan([dl EXCEPT !.pos = @ + 1], dl.body[dl.pos + 1])
           IN  IF d.savedLines >= BatchSize
               THEN \E ok \in Commits :
                      /\ db' = saveToDB(db, d.lines, ok)
                      /\ dl' = [d EXCEPT !.savedLines = 0, !.lines = <<>>]
                      /\ gh' = [gh EXCEPT
                           !.run.commitFailed = @ \/ ~ok,
                           !.run.committed = IF ok
                             THEN @ \cup {d.lines[i] : i \in 1..Len(d.lines)}
                             ELSE @]
               ELSE /\ dl' = d
                    /\ UNCHANGED <<db, gh>>
        /\ orch' = orch
     \/ /\ dl.pos = Len(dl.body)
        /\ dl' = [dl EXCEPT !.rdrErr = "EOF"]
        /\ orch' = [orch EXCEPT !.pc = "flush"]
        /\ UNCHANGED <<db, gh>>
     \/ /\ CanFail
        /\ dl' = [dl EXCEPT !.rdrErr = "error"]
        /\ orch' = [orch EXCEPT !.pc = "flush"]
        /\ UNCHANGED <<db, gh>>
  /\ UNCHANGED <<qs, currentStatus, helper, upd, hs, sched, pending, remote,
                 clock>>

\* downloadUpdate, lines 285-296: the remaining lines are saved, then the
\* error of the read is looked at.
downloadUpdateFlush ==
  /\ orch.pc = "flush"
  /\ \E ok \in {x \in Commits : x \/ (CanFail /\ Len(dl.lines) > 0)} :
       LET fail == (Len(dl.lines) > 0 /\ ~ok) \/ dl.rdrErr # "EOF"
       IN  /\ db' = IF Len(dl.lines) > 0 THEN saveToDB(db, dl.lines, ok)
                    ELSE db
           /\ orch' = [orch EXCEPT !.pc = IF fail THEN "sendRetry"
                                          ELSE "setLast"]
           /\ dl' = IF fail THEN NoDl ELSE dl
           /\ gh' = LET g == [gh EXCEPT
                          !.run.commitFailed = @ \/ ~ok,
                          !.run.committed = IF ok
                            THEN @ \cup {dl.lines[i] : i \in 1..Len(dl.lines)}
                            ELSE @]
                    IN  IF fail THEN Returned(g, FALSE) ELSE g
  /\ UNCHANGED <<qs, currentStatus, helper, upd, hs, sched, pending, remote,
                 clock>>

\* downloadUpdate, lines 297-302: setLastUpdated and the return.
downloadUpdateSetLast ==
  /\ orch.pc = "setLast"
  /\ \E ok \in {x \in Commits : x \/ CanFail} :
       /\ db' = setLastUpdated(db, clock, ok)
       /\ orch' = [orch EXCEPT !.pc = IF ok THEN "sendReady" ELSE "sendRetry"]
       /\ gh' = [Returned(gh, ok) EXCEPT !.run.writeFailed = ~ok]
       /\ dl' = NoDl
  /\ UNCHANGED <<qs, currentStatus, helper, upd, hs, sched, pending, remote,
                 clock>>

\* ----------------------------------------------------- the environment
\* Time passes.
Tick ==
  /\ clock < MaxTime
  /\ clock' = clock + 1
  /\ UNCHANGED <<qs, currentStatus, helper, upd, hs, sched, pending, orch, dl,
                 db, remote, gh>>

\* The remote publishes another version of the feed.
RemoteChange ==
  /\ remote.mod < clock
  /\ \E f \in 1..Len(Feeds) :
       /\ Feeds[f] # remote.feed
       /\ remote' = [mod |-> clock, feed |-> Feeds[f]]
  /\ UNCHANGED <<qs, currentStatus, helper, upd, hs, sched, pending, orch, dl,
                 db, clock, gh>>

\* The goroutines of the status register.
Register ==
  \/ syncHelper
  \/ updaterTake
  \/ updaterEval
  \/ syncStatus

\* The /update handlers.
Kickstart ==
  \/ \E h \in Handlers : Request(h)
  \/ \E h \in Handlers : kickstartBorrow(h)
  \/ \E h \in Handlers : kickstartSwitch(h)

\* updateManager with performUpdate and downloadUpdate.
Refresh ==
  \/ \E src \in {"sched", "retry", "kick"} : updateManager(src)
  \/ performUpdateProbe
  \/ performUpdateRetry
  \/ downloadUpdateGet
  \/ downloadUpdateRead
  \/ downloadUpdateFlush
  \/ downloadUpdateSetLast

\* All goroutines, the remote serving one version of the feed.
Next ==
  \/ Register
  \/ Kickstart
  \/ updateScheduller
  \/ Refresh

Spec == Init /\ [][Next]_vars

\* The refresh without /update requests, the remote changing over time.
NextRefresh ==
  \/ Register
  \/ updateScheduller
  \/ Refresh
  \/ Tick
  \/ RemoteChange

SpecRefresh == InitFaulty /\ [][NextRefresh]_vars

\* The refresh with no scheduler tick after the first and no /update
\* request.  A goroutine that can take a step is scheduled in the end
\* (updateManager with performUpdate is one goroutine, and the step of
\* syncStatus is its send on lastStatus); the errors of the network and of
\* the database are not under fairness, they are choices inside the steps.
NextRetry ==
  \/ Register
  \/ Refresh

SpecRetry ==
  /\ InitFaulty
  /\ [][NextRetry]_vars
  /\ WF_vars(syncHelper)
  /\ WF_vars(updaterTake)
  /\ WF_vars(updaterEval)
  /\ WF_vars(Refresh \/ syncStatus)

\* The refresh with a database without errors, the remote changing over
\* time.
SpecVersions == Init /\ [][NextRefresh]_vars

\* The status register with its readers and its writer: the /update
\* handlers and updateManager with the part of performUpdate that runs from
\* InitReader, no scheduler tick after the first.  A
\* goroutine that can take a step is scheduled in the end.  A handler
\* blocked in its receive on syncedStatus is in the queue of the channel's
\* receivers and is served by one of the sends that go on arriving: the
\* receive is under strong fairness.
NextReader ==
  \/ Register
  \/ Kickstart
  \/ \E src \in {"sched", "retry", "kick"} : updateManager(src)
  \/ performUpdateProbe

SpecReader ==
  /\ InitReader
  /\ [][NextReader]_vars
  /\ WF_vars(syncHelper)
  /\ WF_vars(updaterTake)
  /\ WF_vars(updaterEval)
  /\ WF_vars(performUpdateProbe \/ syncStatus)
  /\ \A h \in Handlers : SF_vars(kickstartBorrow(h))
  /\ \A h \in Handlers : WF_vars(kickstartSwitch(h))

\* The status register with the /update handlers and the refresh of an
\* empty stream, no scheduler tick after the first.  A goroutine of the
\* register that can take a step is scheduled in the end.
NextSettle ==
  \/ Register
  \/ Kickstart
  \/ Refresh

SpecSettle ==
  /\ InitSettle
  /\ [][NextSettle]_vars
  /\ WF_vars(syncHelper)
  /\ WF_vars(updaterTake)
  /\ WF_vars(updaterEval)

\* The requests for /, one at a time, on a database at rest.
NextQuery ==
  \/ \E method \in {"POST", "GET"}, body \in Bodies : Query(method, body)
  \/ QueryReply
  \/ QueryReturn

SpecQuery == InitQuery /\ [][NextQuery]_vars

\* The refresh of one version of the feed, for every stream, with retries
\* and no scheduler tick after the first.
SpecIngest == InitIngest /\ [][NextRetry]_vars

\* ===================================================== the properties

StorageError ==
  gh.run.commitFailed \/ gh.run.viewFailed \/ gh.run.writeFailed

InFlight == orch.pc \in {"get", "read", "flush", "setLast"}

\* C1: at most one execution of downloadUpdate is in flight at any time,
\* and it is the one of the performUpdate that updateManager is in:
\* updateManager takes no signal before performUpdate has returned.
C1_OnePipeline ==
  /\ gh.running <= 1
  /\ gh.running = 1 <=> InFlight

\* The pipeline is in flight while signals of the scheduler and of a
\* /update request are pending.
C1_Witness ==
  /\ gh.running = 1 /\ orch.pc = "read"
  /\ pending.sched = 1 /\ pending.kick = 1

\* C2 as claimed: a /update request that arrived after set(processing) was
\* completed and is answered before the next set gets "Update is already
\* in progress" and starts no goroutine that sends on updateRequired.
C2_Claimed ==
  [][\A h \in Handlers :
       (hs[h].pc = "switch" /\ hs'[h].pc = "idle" /\ hs[h].inRun)
       => /\ Response(hs[h].status) = "Update is already in progress"
          /\ pending' = pending]_vars

\* C3 as claimed: the status a handler receives from syncedStatus is the
\* value of the most recently completed set.
C3_Claimed ==
  [][\A h \in Handlers :
       (hs[h].pc = "recv" /\ hs'[h].pc = "send")
       => hs'[h].status = lastSet]_vars

\* C4 as claimed: when performUpdate finds the remote not modified after
\* the persisted time, it returns without a download and the status is
\* ready.
C4_Claimed ==
  [][(orch.pc = "head" /\ orch'.pc = "wait" /\ db.updated.kind = "time")
     => (lastSet' = ready /\ gh'.running = 0)]_vars

\* C5 as claimed: with the persisted time absent or unparsable, a
\* performUpdate whose HEAD request succeeded goes on to set processing and
\* to run the pipeline, whatever the remote modification time.
C5_Claimed ==
  [][(/\ orch.pc = "head" /\ orch'.pc # "head"
      /\ db.updated.kind \in {"absent", "garbage"}
      /\ gh'.run.outcome # "probeError")
     => orch'.pc = "sendProcessing"]_vars

\* C6: a failed run of the pipeline is followed by set(failed), by the
\* start of a goroutine that sends on updateRequired and by the return to
\* the receive of updateManager; with no scheduler tick and no /update
\* request, that signal is consumed and performUpdate runs again.
C6_RetryRuns ==
  /\ [][(orch.pc = "sendRetry" /\ orch' # orch)
        => (currentStatus' = failed /\ orch'.pc = "spawnRetry")]_vars
  /\ [][(orch.pc = "spawnRetry" /\ orch' # orch)
        => (pending'.retry = pending.retry + 1 /\ orch'.pc = "wait")]_vars
  /\ (orch.pc = "sendRetry") ~> (orch.pc = "wait" /\ pending.retry > 0)
  /\ (orch.pc = "wait" /\ pending.retry > 0)
        ~> (orch.pc = "head" /\ pending.retry = 0)

\* performUpdate runs again on the retry signal: the status is failed, the
\* scheduler sleeps and no signal is left.
C6_Witness ==
  /\ orch.pc = "head" /\ currentStatus = failed
  /\ sched = "sleep" /\ pending.retry = 0 /\ pending.kick = 0

\* C7 as claimed: setLastUpdated writes the time only in a run whose read
\* loop ended with io.EOF and in which no saveToDB failed.
C7_Claimed ==
  [][(orch.pc = "setLast" /\ orch'.pc = "sendReady")
     => (dl.rdrErr = "EOF" /\ ~gh.run.commitFailed)]_vars

\* C8 as claimed: a refresh in which saveToDB, the db.View of remoteUpdated
\* or setLastUpdated returned an error does not end with set(ready).
C8_Claimed == orch.pc = "sendReady" => ~StorageError

\* C9 as claimed: at most one goroutine is blocked in a send on
\* updateRequired, counting the scheduler, the retries and the /update
\* requests.
C9_Claimed == pending.sched + pending.retry + pending.kick <= 1

\* C9 as amended: at most one signal of the scheduler is pending, and the
\* scheduler stays in its send while it is.
C9_SchedulerOnce ==
  /\ pending.sched <= 1
  /\ pending.sched = 1 <=> sched = "send"

\* The scheduler's signal, a retry and a /update signal pending together.
C9_Witness ==
  pending.sched = 1 /\ pending.retry = 1 /\ pending.kick = 1

\* The tokens the read loop emits for a whole body, read from its start.
RECURSIVE Emitted(_, _)
Emitted(body, line) ==
  IF body = <<>> THEN {}
  ELSE IF Head(body) \in Digits
       THEN Emitted(Tail(body), Append(line, Head(body)))
       ELSE IF Head(body) = Newline
            THEN (IF line # <<>> THEN {line} ELSE {})
                 \cup Emitted(Tail(body), <<>>)
            ELSE Emitted(Tail(body), line)

\* C10: the entries committed by the batches of a run are in the bucket
\* and isBlacklisted reports them, and no later step removes an entry, also
\* when the run fails; the failed run is followed by set(failed); a later
\* run starts with fresh locals at the start of the body and, when none of
\* its saveToDB calls fails, ends with every token of the body in the
\* bucket, the ones already present included.
C10_PartialKept ==
  /\ [](\A e \in gh.run.committed : isBlacklisted(db, e))
  /\ [][\A e \in db.passports : isBlacklisted(db', e)]_vars
  /\ [][(orch.pc = "sendRetry" /\ orch' # orch) => currentStatus' = failed]_vars
  /\ [][(orch.pc = "get" /\ orch'.pc = "read")
        => dl' = [NoDl EXCEPT !.body = remote.feed]]_vars
  /\ []((orch.pc = "setLast" /\ ~gh.run.commitFailed)
        => \A e \in Emitted(dl.body, <<>>) : isBlacklisted(db, e))

\* No run has succeeded, an earlier run has committed entries and failed,
\* and the next run has read the body from its start with no saveToDB
\* failing and is about to store the time.
C10_Witness ==
  /\ orch.pc = "setLast" /\ ~gh.run.commitFailed
  /\ db.updated.kind # "time"
  /\ currentStatus = processing /\ pending.retry = 0
  /\ gh.run.committed # db.passports

\* C11: no step removes a key of bucket passports, and a saveToDB of a key
\* that is present leaves the database as it is, so isBlacklisted gives the
\* same result for it before and after.
C11_OnlyGrows ==
  /\ [][db.passports \subseteq db'.passports]_vars
  /\ [](\A e \in db.passports :
          /\ saveToDB(db, <<e>>, TRUE) = db
          /\ isBlacklisted(saveToDB(db, <<e>>, TRUE), e) = isBlacklisted(db, e))

\* A refresh has succeeded on the first version of the feed; the refresh of
\* the second version has saved all its tokens, two of them present before,
\* and the bucket holds the tokens of both.
C11_Witness ==
  /\ orch.pc = "setLast" /\ db.updated.kind = "time"
  /\ dl.body = Feeds[2]
  /\ gh.run.committed = Emitted(Feeds[2], <<>>)
  /\ db.passports = Emitted(Feeds[1], <<>>) \cup Emitted(Feeds[2], <<>>)
  /\ Cardinality(db.passports) = 4

\* C12 as claimed: a POST / whose body is an identifier surrounded by
\* whitespace gets the status code and the text that the POST of its
\* trimmed form gets, in every state of the store.
C12_Claimed ==
  (qs.pc = "written" /\ qs.method = "POST" /\ qs.res.code # 500)
  => qs.res = handlePassportValid(db, "POST", TrimSpace(qs.body), TRUE)

\* The HEAD request or the parse of Last-Modified has failed and
\* performUpdate is at lastStatus <- failed of line 203, 209 or 217.
ProbeFailed == orch.pc = "sendFailed" /\ gh.run.outcome = "probeError"

\* C13 as claimed: after a failure of the probe performUpdate sets failed
\* and returns without a call of downloadUpdate and without a retry signal,
\* and no retry signal is pending then: the next receive of updateManager
\* takes a signal of the scheduler or of a /update request.
C13_Claimed ==
  [][(ProbeFailed /\ orch' # orch)
     => /\ currentStatus' = failed /\ orch'.pc = "wait"
        /\ gh'.running = 0 /\ pending'.retry = 0]_vars

\* C13 as amended: after a failure of the probe performUpdate sets failed
\* and returns without a call of downloadUpdate and without starting a
\* goroutine that sends on updateRequired; the signals pending are the ones
\* pending before.
C13_NoRetryOfProbe ==
  /\ [][(orch.pc = "head" /\ ProbeFailed')
        => (pending' = pending /\ gh'.running = 0)]_vars
  /\ [][(ProbeFailed /\ orch' # orch)
        => /\ currentStatus' = failed /\ orch'.pc = "wait"
           /\ gh'.running = 0 /\ pending' = pending /\ db' = db]_vars

\* performUpdate has returned after a failure of the probe of a remote
\* that is outdated: the status is failed and no signal is pending.
C13_Witness ==
  /\ orch.pc = "wait" /\ currentStatus = failed
  /\ db.updated = Absent /\ db.passports = {} /\ remote.mod > PlaceholderTime
  /\ pending.retry = 0 /\ pending.kick = 0 /\ pending.sched = 0

SetStep ==
  /\ orch.pc \in {"sendProcessing", "sendReady", "sendFailed", "sendRetry"}
  /\ orch' # orch

\* C15: the status is ready at the start; processing is set only when the
\* last status set is ready or failed; the set after processing is ready
\* when downloadUpdate succeeded and failed when it failed; ready is set
\* only when the last status set is processing.
C15_StateMachine ==
  /\ currentStatus = ready /\ helper.s = ready
  /\ [][(SetStep /\ currentStatus' = processing)
        => currentStatus \in {ready, failed}]_vars
  /\ [][(SetStep /\ currentStatus = processing)
        => /\ gh.run.outcome \in {"success", "failure"}
           /\ currentStatus' = IF gh.run.outcome = "success" THEN ready
                               ELSE failed]_vars
  /\ [][(SetStep /\ currentStatus' = ready)
        => currentStatus = processing]_vars
  /\ [][currentStatus' # currentStatus => SetStep]_vars

\* Ready has been set after processing, by a run that stored the time,
\* while the updater goroutine of the set of processing still holds or
\* offers its value.
C15_Witness ==
  /\ currentStatus = ready /\ db.updated.kind = "time"
  /\ orch.pc = "wait"
  /\ upd.wait + upd.eval + upd.send[ready] + upd.send[processing] = 2

\* t is a run of digits of body that no digit precedes or follows.
DigitRun(body, t) ==
  \E i, j \in 1..Len(body) :
     /\ i <= j /\ SubSeq(body, i, j) = t
     /\ \A k \in i..j : body[k] \in Digits
     /\ i = 1 \/ body[i - 1] \notin Digits
     /\ j = Len(body) \/ body[j + 1] \notin Digits

\* The digits of the bytes i..j of body, in their order.
DigitsOf(body, i, j) == SelectSeq(SubSeq(body, i, j), LAMBDA c : c \in Digits)

\* The digits of every line of the first pos bytes of body that ends with
\* a newline and has a digit.
LineTokens(body, pos) ==
  {DigitsOf(body, i, j) : <<i, j>> \in
     {p \in (1..pos) \X (1..pos) :
        /\ p[1] <= p[2] /\ body[p[2]] = Newline
        /\ p[1] = 1 \/ body[p[1] - 1] = Newline
        /\ \A k \in p[1]..(p[2] - 1) : body[k] # Newline}} \ {<<>>}

\* The tokens the run has appended to lines so far.
Tokens == {dl.lines[k] : k \in 1..Len(dl.lines)} \cup gh.run.committed

\* C16 as claimed: every token the read loop emits is a contiguous run of
\* digits of the stream: a byte that is neither a digit nor a newline
\* separates the digits before it from the digits after it.
C16_Claimed ==
  orch.pc \in {"read", "flush"} => \A t \in Tokens : DigitRun(dl.body, t)

\* C16 as amended: a token is emitted at a newline when a digit was read
\* since the last newline, and it is the digits of that line in their
\* order: the other bytes of the line are dropped and the digits on their
\* two sides are joined; no token has digits of two lines.
C16_LineDigits ==
  orch.pc \in {"read", "flush"}
  => /\ Tokens = LineTokens(dl.body, dl.pos)
     /\ \E i \in 1..(dl.pos + 1) :
          /\ i = 1 \/ dl.body[i - 1] = Newline
          /\ \A k \in i..dl.pos : dl.body[k] # Newline
          /\ dl.line = DigitsOf(dl.body, i, dl.pos)

\* The stream 1x2\n has been read to its end and the one token is 12.
C16_Witness ==
  /\ orch.pc = "flush" /\ dl.rdrErr = "EOF"
  /\ dl.body = <<"1", Other, "2", Newline>>
  /\ dl.lines = << <<"1", "2">> >>

\* The digits of every line of body that has a digit, the last line ending
\* with a newline or with the end of the stream.
FeedTokens(body) == LineTokens(Append(body, Newline), Len(body) + 1)

\* C17 as claimed: when the read loop has ended with io.EOF and every
\* saveToDB of the run has succeeded, every token of the stream is in
\* bucket passports, the tokens of the last partial batch and a last token
\* that no newline follows included.
C17_Claimed ==
  (orch.pc = "setLast" /\ dl.rdrErr = "EOF" /\ ~StorageError)
  => \A t \in FeedTokens(dl.body) : isBlacklisted(db, t)

\* The version the remote serves was modified at or before the time
\* stored by the last successful refresh.
StoredCoversRemote ==
  db.updated.kind = "time" /\ remote.mod <= db.updated.t

\* The bucket holds every token of the version the remote serves.
RemoteStored ==
  \A t \in Emitted(remote.feed, <<>>) : isBlacklisted(db, t)

\* C18 as claimed: with the time T stored by a successful refresh, the
\* bucket holds the tokens of the version modified last at or before T.  A
\* version published while downloadUpdate was running and not stored by it
\* is not covered by the T that setLastUpdated writes, and a performUpdate
\* that returns without a download leaves no such version unstored.
C18_Claimed ==
  [][/\ (orch.pc = "setLast" /\ orch'.pc = "sendReady")
        => (StoredCoversRemote' => RemoteStored')
     /\ (orch.pc = "head" /\ orch'.pc = "wait" /\ StoredCoversRemote)
        => RemoteStored]_vars

\* The values offered on syncedStatus: the value in circulation, or none
\* while an updater goroutine is between its receive and its send.
Circulating == {snd.v : snd \in Senders}

\* The goroutines that hold the value: the ones blocked in a send on
\* syncedStatus and the updater goroutines about to send.
Holders == Cardinality(Senders) + upd.eval

\* C19: one value is in circulation, and the value offered changes only
\* when an updater goroutine offers the status of the latest set: an
\* updater goroutine started for an earlier set does not bring back the
\* value of its set after a later set.
C19_NeverBackwards ==
  /\ [](Holders = 1)
  /\ [][\A v \in Circulating' :
          \/ v \in Circulating
          \/ upd.eval > 0 /\ v = lastSet]_vars

\* Two sets are done, processing and failed; the first of their two
\* updater goroutines to get the value offers failed, the other still
\* waits, and processing was never in circulation.
C19_Witness ==
  /\ currentStatus = failed /\ helper.s = ready /\ helper.pc = "recv"
  /\ upd.wait = 1 /\ upd.send[failed] = 1

\* The value offered on syncedStatus, by syncHelper, by a handler that
\* returns what it has read or by an updater goroutine, is s.
Settled(s) ==
  /\ Circulating \subseteq {s}
  /\ \A h \in Handlers : hs[h].pc = "send" => hs[h].status = s

\* C20: when the status set last stays the last one, the value in
\* circulation becomes that status and stays it, and a handler that reads
\* from then on gets it.
C20_Settles ==
  \A s \in Status : <>[](lastSet = s) => <>[]Settled(s)

\* The refresh has succeeded, the updater goroutines of its two sets have
\* ended, and a handler has read ready and is returning it.
C20_Witness ==
  /\ currentStatus = ready /\ db.updated.kind = "time" /\ orch.pc = "wait"
  /\ Updaters = 0
  /\ \E h \in Handlers : hs[h].pc = "send" /\ hs[h].status = ready

====
